---------------------------- MODULE Spec2Model ----------------------------
(***************************************************************************)
(* Model of api/services/vision_service.py: the OCR post-processing core   *)
(* (word boxes -> lines -> text -> extracted fields, date normalisation).  *)
(*                                                                         *)
(* Conventions                                                             *)
(*  - A Python str is a sequence of characters; a character is a TLA+      *)
(*    string.  ASCII characters are themselves; a non-ASCII code point is  *)
(*    written by an ASCII name ("o^'" for U+1ED1, "ELLIPSIS" for U+2026,   *)
(*    "SUP2" for U+00B2 ...), see the character classes below.             *)
(*  - Python None is the value None; a raised exception is RAISE.          *)
(*  - Geometry is kept in integers: a WordBox's cy holds miny + maxy, that *)
(*    is twice the source's cy = (miny + maxy) / 2.0, and line_threshold   *)
(*    holds ten times the source's value; every comparison is scaled       *)
(*    accordingly (see Far).                                               *)
(***************************************************************************)
EXTENDS Integers, Sequences, FiniteSets, TLC

VARIABLES
    pc,             \* position of the running function
    p_idx,          \* extract_word_boxes: index of the page being read
    words,          \* the WordBox list (extract_word_boxes' result, group_words_to_lines' argument)
    words_sorted,   \* group_words_to_lines: words sorted by (page, cy, minx)
    line_threshold, \* group_words_to_lines: 10 * max(10, median_h * 0.8)
    lines,          \* group_words_to_lines: the closed lines
    current_line,   \* group_words_to_lines: the line being accumulated
    k,              \* group_words_to_lines: index in words_sorted of the next word of the sweep
    gen,            \* the pieces the argument under test was built from
    arg,            \* the argument of the string function being run
    loc,            \* its local variables, a record named as in the source
    ret,            \* its return value
    media           \* extract_resume: the names of the files that exist under MEDIA_ROOT

vars == <<pc, p_idx, words, words_sorted, line_threshold, lines, current_line, k, gen, arg, loc, ret, media>>
gvars == <<p_idx, words, words_sorted, line_threshold, lines, current_line, k, media>>
svars == <<gen, arg, loc, ret>>

\* None and a raised exception, kept apart from every str: no character is named so
None == <<"None">>
RAISE == <<"RAISE">>
NoLoc == [f \in {} |-> 0]

----------------------------------------------------------------------------
(* Bounds *)

MaxWords == 3       \* words handed to group_words_to_lines alone
MaxDocWords == 2    \* words of a document run through the whole pipeline
MaxPages == 2       \* pages of such a document
MaxCleanLen == 4    \* characters of an argument of clean_text
MaxGroups == 4      \* groups of a date fragment
MaxLines == 3       \* lines of a document handed to extract_name
MaxRequests == 2    \* requests extract_resume handles at the same time

----------------------------------------------------------------------------
(* Integer and sequence helpers *)

RECURSIVE SumSeq(_)
SumSeq(s) == IF s = <<>> THEN 0 ELSE Head(s) + SumSeq(Tail(s))

RECURSIVE Flatten(_)
Flatten(ss) == IF ss = <<>> THEN <<>> ELSE Head(ss) \o Flatten(Tail(ss))

SeqsUpTo(S, n) == UNION {[1..m -> S] : m \in 0..n}

Count(s, x) == Cardinality({i \in DOMAIN s : s[i] = x})

\* Lexicographic <= on integer tuples of equal length
RECURSIVE LexLeq(_, _)
LexLeq(a, b) ==
    IF a = <<>> THEN TRUE
    ELSE IF Head(a) < Head(b) THEN TRUE
    ELSE IF Head(a) > Head(b) THEN FALSE
    ELSE LexLeq(Tail(a), Tail(b))

\* Insert x (with key kx) after every element whose key is <= kx: a stable insertion
RECURSIVE InsertStable(_, _, _, _)
InsertStable(s, keys, x, kx) ==
    IF s = <<>> THEN <<x>>
    ELSE IF LexLeq(keys[Len(s)], kx) THEN Append(s, x)
    ELSE Append(InsertStable(SubSeq(s, 1, Len(s) - 1), SubSeq(keys, 1, Len(s) - 1), x, kx), s[Len(s)])

\* Python's sorted(s, key=...): stable, ascending; keys[i] is the key of s[i]
RECURSIVE SortedByKeys(_, _)
SortedByKeys(s, keys) ==
    IF s = <<>> THEN <<>>
    ELSE LET n == Len(s)
             front == SortedByKeys(SubSeq(s, 1, n - 1), SubSeq(keys, 1, n - 1))
             fkeys == SortedByKeys(SubSeq(keys, 1, n - 1), SubSeq(keys, 1, n - 1))
         IN  InsertStable(front, fkeys, s[n], keys[n])

----------------------------------------------------------------------------
(* Characters.  Non-ASCII letters are named by their base letter, then the *)
(* modifier (^ circumflex, ( breve, + horn, - stroke), then the tone mark   *)
(* (' acute, ! grave, ? hook, ~ tilde, . dot below).                        *)

TAB == "TAB"
LF == "LF"
ELLIPSIS == "ELLIPSIS"
SUP2 == "SUP2"
TIMES == "TIMES"

DigitChars == <<"0", "1", "2", "3", "4", "5", "6", "7", "8", "9">>
Digits == {DigitChars[i] : i \in DOMAIN DigitChars}
DigitVal(c) == (CHOOSE i \in DOMAIN DigitChars : DigitChars[i] = c) - 1

UpperChars == <<"A", "B", "C", "D", "E", "F", "G", "H", "I", "J", "K", "L", "M",
                "N", "O", "P", "Q", "R", "S", "T", "U", "V", "W", "X", "Y", "Z",
                "A!", "A.", "A(", "A^.", "D-", "E^", "E^!", "E^.", "I!", "I?", "I.",
                "O'", "O!", "O.", "O^", "O^'", "O^.", "U+~">>
LowerChars == <<"a", "b", "c", "d", "e", "f", "g", "h", "i", "j", "k", "l", "m",
                "n", "o", "p", "q", "r", "s", "t", "u", "v", "w", "x", "y", "z",
                "a!", "a.", "a(", "a^.", "d-", "e^", "e^!", "e^.", "i!", "i?", "i.",
                "o'", "o!", "o.", "o^", "o^'", "o^.", "u+~">>
Uppers == {UpperChars[i] : i \in DOMAIN UpperChars}
Lowers == {LowerChars[i] : i \in DOMAIN LowerChars}

\* str.lower() of one character
LowerChar(c) ==
    IF c \in Uppers THEN LowerChars[CHOOSE i \in DOMAIN UpperChars : UpperChars[i] = c] ELSE c

\* str.lower()
Lower(s) == [i \in DOMAIN s |-> LowerChar(s[i])]

\* \s, and the characters str.strip() and str.split() take as whitespace
IsSpace(c) == c \in {" ", TAB, LF}

\* \d
IsDigit(c) == c \in Digits

\* [A-Za-z\u00C0-\u1EF9\u0110\u0111] of extract_name: the range holds the
\* accented letters and, with them, the signs U+00D7 and U+00F7
IsNameLetter(c) == c \in Uppers \cup Lowers \cup {TIMES}

\* \w: alphanumeric (str.isalnum) or underscore; U+00B2 is alphanumeric
IsWord(c) == c \in Uppers \cup Lowers \cup Digits \cup {"_", SUP2}

\* The character classes of the regular expressions
InClass(cls, c) ==
    CASE cls = "space"     -> IsSpace(c)                           \* \s
      [] cls = "digit"     -> IsDigit(c)                           \* \d
      [] cls = "dot"       -> c # LF                               \* .
      [] cls = "sep"       -> c = ":" \/ c = "-" \/ IsSpace(c)     \* [:\s\-]
      [] cls = "colondash" -> c \in {":", "-"}                     \* [:\-]
      [] cls = "phone"     -> IsDigit(c) \/ IsSpace(c) \/ c \in {"-", "."}   \* [\d\s\-\.]
      [] cls = "date"      -> IsDigit(c) \/ c \in {"/", ".", "-", " "}       \* [\d\/\.\- ]

----------------------------------------------------------------------------
(* Strings: a str is a sequence of characters *)

\* str.strip(chars): cs is the set of characters stripped
RECURSIVE LStrip(_, _)
LStrip(s, cs) == IF s # <<>> /\ Head(s) \in cs THEN LStrip(Tail(s), cs) ELSE s

RECURSIVE RStrip(_, _)
RStrip(s, cs) ==
    IF s # <<>> /\ s[Len(s)] \in cs THEN RStrip(SubSeq(s, 1, Len(s) - 1), cs) ELSE s

Strip(s, cs) == RStrip(LStrip(s, cs), cs)

\* str.strip()
StripSpace(s) == Strip(s, {" ", TAB, LF})

\* str.split(sep) for a one-character sep: the pieces between separators, empty ones kept
RECURSIVE SplitOn(_, _)
SplitOn(s, sep) ==
    IF \A i \in DOMAIN s : s[i] # sep THEN <<s>>
    ELSE LET i == CHOOSE j \in DOMAIN s : s[j] = sep /\ \A m \in 1..(j - 1) : s[m] # sep
         IN  <<SubSeq(s, 1, i - 1)>> \o SplitOn(SubSeq(s, i + 1, Len(s)), sep)

\* str.split(): the maximal runs of non-whitespace
SplitWs(s) == SelectSeq(SplitOn([i \in DOMAIN s |-> IF IsSpace(s[i]) THEN " " ELSE s[i]], " "),
                        LAMBDA w : w # <<>>)

\* str.splitlines(): the text cut at each line break, no empty piece after a final break
SplitLines(s) ==
    LET ps == SplitOn(s, LF)
    IN  IF ps[Len(ps)] = <<>> THEN SubSeq(ps, 1, Len(ps) - 1) ELSE ps

\* sep.join(ss)
RECURSIVE Join(_, _)
Join(ss, sep) ==
    IF ss = <<>> THEN <<>>
    ELSE IF Len(ss) = 1 THEN ss[1]
    ELSE ss[1] \o sep \o Join(Tail(ss), sep)

\* re.sub(r"[cls]+", rep, s): every maximal run of characters of cs becomes rep
RECURSIVE SubRuns(_, _, _)
SubRuns(s, cs, rep) ==
    IF s = <<>> THEN <<>>
    ELSE IF Head(s) \in cs THEN rep \o SubRuns(LStrip(s, cs), cs, rep)
    ELSE <<Head(s)>> \o SubRuns(Tail(s), cs, rep)

\* str.replace(c, ''): every character of cs removed
Remove(s, cs) == SelectSeq(s, LAMBDA c : c \notin cs)

\* re.sub(r"\D", "", s)
OnlyDigits(s) == SelectSeq(s, IsDigit)

\* str.isdigit(): non-empty, every character a digit; U+00B2 counts as a digit here
IsDigitStr(p) == p # <<>> /\ \A i \in DOMAIN p : p[i] \in Digits \cup {SUP2}

\* The digits of an int() literal: digits, single underscores allowed between them
IntBodyOk(q) ==
    /\ q # <<>>
    /\ \A i \in DOMAIN q : q[i] \in Digits \cup {"_"}
    /\ q[1] # "_" /\ q[Len(q)] # "_"
    /\ \A i \in 1..(Len(q) - 1) : ~(q[i] = "_" /\ q[i + 1] = "_")

IntUnsigned(p) ==
    LET q == StripSpace(p)
    IN  IF q # <<>> /\ q[1] \in {"+", "-"} THEN Tail(q) ELSE q

\* whether int(p) returns (it raises ValueError otherwise)
IntOk(p) == IntBodyOk(IntUnsigned(p))

RECURSIVE DigitsValue(_)
DigitsValue(q) == IF q = <<>> THEN 0 ELSE 10 * DigitsValue(SubSeq(q, 1, Len(q) - 1)) + DigitVal(q[Len(q)])

\* int(p), for IntOk(p)
IntVal(p) ==
    LET q == StripSpace(p)
        v == DigitsValue(Remove(IntUnsigned(p), {"_"}))
    IN  IF q[1] = "-" THEN -v ELSE v

RECURSIVE NatStr(_)
NatStr(n) == IF n < 10 THEN <<DigitChars[n + 1]>> ELSE NatStr(n \div 10) \o <<DigitChars[(n % 10) + 1]>>

RECURSIVE ZeroPad(_, _)
ZeroPad(s, w) == IF Len(s) >= w THEN s ELSE ZeroPad(<<"0">> \o s, w)

\* f"{n:0wd}": sign, then zeros to the width
FormatInt(n, w) == IF n < 0 THEN <<"-">> \o ZeroPad(NatStr(-n), w - 1) ELSE ZeroPad(NatStr(n), w)

----------------------------------------------------------------------------
(* Regular expressions, as far as the source uses them: a pattern is a     *)
(* sequence of elements, each a literal, a greedy bounded repetition of a  *)
(* character class, or a word boundary; a search tries the start positions *)
(* from the left, the alternatives in order, and backtracks over the       *)
(* repetition counts from the longest down, as Python's re does.           *)

Lit(s) == [t |-> "lit", s |-> s]
Rep(cls, lo, hi) == [t |-> "rep", c |-> cls, lo |-> lo, hi |-> hi]    \* hi = -1: unbounded
Wb == [t |-> "wb"]                                                    \* \b
End == [t |-> "end"]                                                  \* $

\* the number of characters of class cls at s[pos..], capped at hi
RECURSIVE Run(_, _, _, _)
Run(s, pos, cls, hi) ==
    IF hi = 0 \/ pos > Len(s) \/ ~InClass(cls, s[pos]) THEN 0
    ELSE 1 + Run(s, pos + 1, cls, IF hi = -1 THEN -1 ELSE hi - 1)

LitAt(s, pos, lit, ic) ==
    /\ pos + Len(lit) - 1 <= Len(s)
    /\ \A i \in DOMAIN lit :
          IF ic THEN LowerChar(s[pos + i - 1]) = LowerChar(lit[i]) ELSE s[pos + i - 1] = lit[i]

\* \b at pos: exactly one of the characters before and at pos is a word character
WbAt(s, pos) ==
    LET before == pos > 1 /\ IsWord(s[pos - 1])
        after == pos <= Len(s) /\ IsWord(s[pos])
    IN  before # after

\* The match of elements j.. of pat at pos: <<>> when there is none, else
\* <<pos, the position after element j, the position after element j+1, ...>>
RECURSIVE MatchFrom(_, _, _, _, _)
RECURSIVE TryCounts(_, _, _, _, _, _)
MatchFrom(pat, j, s, pos, ic) ==
    IF j > Len(pat) THEN <<pos>>
    ELSE LET e == pat[j] IN
         CASE e.t = "lit" ->
                IF LitAt(s, pos, e.s, ic)
                THEN LET r == MatchFrom(pat, j + 1, s, pos + Len(e.s), ic)
                     IN  IF r = <<>> THEN <<>> ELSE <<pos>> \o r
                ELSE <<>>
           [] e.t = "wb" ->
                IF WbAt(s, pos)
                THEN LET r == MatchFrom(pat, j + 1, s, pos, ic)
                     IN  IF r = <<>> THEN <<>> ELSE <<pos>> \o r
                ELSE <<>>
           [] e.t = "end" ->
                IF pos = Len(s) + 1 \/ (pos = Len(s) /\ s[pos] = LF)
                THEN LET r == MatchFrom(pat, j + 1, s, pos, ic)
                     IN  IF r = <<>> THEN <<>> ELSE <<pos>> \o r
                ELSE <<>>
           [] e.t = "rep" -> TryCounts(pat, j, s, pos, Run(s, pos, e.c, e.hi), ic)

TryCounts(pat, j, s, pos, c, ic) ==
    IF c < pat[j].lo THEN <<>>
    ELSE LET r == MatchFrom(pat, j + 1, s, pos + c, ic)
         IN  IF r # <<>> THEN <<pos>> \o r ELSE TryCounts(pat, j, s, pos, c - 1, ic)

\* the first alternative (in order) of alts matching at pos: [alt, ends], alt = 0 for none
RECURSIVE FirstAlt(_, _, _, _, _)
FirstAlt(alts, a, s, pos, ic) ==
    IF a > Len(alts) THEN [alt |-> 0, ends |-> <<>>]
    ELSE LET r == MatchFrom(alts[a], 1, s, pos, ic)
         IN  IF r # <<>> THEN [alt |-> a, ends |-> r] ELSE FirstAlt(alts, a + 1, s, pos, ic)

\* re.search: the leftmost match
RECURSIVE SearchFrom(_, _, _, _)
SearchFrom(alts, s, pos, ic) ==
    IF pos > Len(s) + 1 THEN [alt |-> 0, ends |-> <<>>]
    ELSE LET r == FirstAlt(alts, 1, s, pos, ic)
         IN  IF r.alt # 0 THEN r ELSE SearchFrom(alts, s, pos + 1, ic)

Search(alts, s, ic) == SearchFrom(alts, s, 1, ic)

Found(m) == m.alt # 0

\* the text the match gives to element g of the pattern
Group(m, s, g) == SubSeq(s, m.ends[g], m.ends[g + 1] - 1)

\* m.group(1) where the group is the last element of every alternative
LastGroup(m, s) == Group(m, s, Len(m.ends) - 1)

----------------------------------------------------------------------------
(* group_words_to_lines *)

\* (mutant: cy left out of the sort key)
SortWords_NoCy(ws) == SortedByKeys(ws, [i \in DOMAIN ws |-> <<ws[i].page, ws[i].minx>>])

\* key=lambda w: (w["page"], w["cy"], w["minx"])
SortWords(ws) == SortedByKeys(ws, [i \in DOMAIN ws |-> <<ws[i].page, ws[i].cy, ws[i].minx>>])

\* sorted(line, key=lambda x: x["minx"])
SortLine(line) == SortedByKeys(line, [i \in DOMAIN line |-> <<line[i].minx>>])

\* heights = [w["h"] for w in words_sorted if w["h"] > 0]
Heights(ws) == SelectSeq([i \in DOMAIN ws |-> ws[i].h], LAMBDA h : h > 0)

\* Twice statistics.median(data): the middle value, or the mean of the two middle values
Median2(data) ==
    LET s == SortedByKeys(data, [i \in DOMAIN data |-> <<data[i]>>])
        n == Len(s)
    IN  IF n % 2 = 1 THEN 2 * s[(n + 1) \div 2]
        ELSE s[n \div 2] + s[n \div 2 + 1]

\* median_h = statistics.median(heights) if heights else 12
\* line_threshold = max(10, median_h * 0.8), held times ten
LineThreshold(ws) ==
    LET heights == Heights(ws)
        median_h2 == IF heights # <<>> THEN Median2(heights) ELSE 24
    IN  IF 100 >= 4 * median_h2 THEN 100 ELSE 4 * median_h2

\* Sum of the cy of a line; current_line_center(line) is CySum(line) / (2 * Len(line))
CySum(line) == SumSeq([i \in DOMAIN line |-> line[i].cy])

\* w["page"] != current_line[-1]["page"] or abs(w["cy"] - current_line_center(current_line)) > line_threshold
Far(w, line, threshold) ==
    \/ w.page # line[Len(line)].page
    \/ LET d == Len(line) * w.cy - CySum(line)                \* abs(...) > line_threshold
       IN  5 * (IF d < 0 THEN -d ELSE d) > Len(line) * threshold

\* (mutant: the per-line sort left out)
SortLines_Skip(ls) == ls

\* for i in range(len(lines)): lines[i] = sorted(lines[i], key=...)
SortLines(ls) == [i \in DOMAIN ls |-> SortLine(ls[i])]

\* (mutant: the final lines.append(current_line) forgotten)
CloseLines_NoLastAppend(ls, cur) == SortLines(ls)

\* lines.append(current_line) after the sweep, then the per-line sort
CloseLines(ls, cur) == SortLines(Append(ls, cur))

GroupIdle ==
    /\ p_idx = 0 /\ words = <<>> /\ words_sorted = <<>> /\ line_threshold = 0
    /\ lines = <<>> /\ current_line = <<>> /\ k = 0
    /\ media = {}

\* if not words: return []
GroupEmpty ==
    /\ pc = "group"
    /\ words = <<>>
    /\ lines' = <<>>
    /\ pc' = "grouped"
    /\ UNCHANGED <<p_idx, words, words_sorted, line_threshold, current_line, k, media>>
    /\ UNCHANGED svars

\* words_sorted, line_threshold, current_line = [words_sorted[0]]
GroupStart ==
    /\ pc = "group"
    /\ words # <<>>
    /\ words_sorted' = SortWords(words)
    /\ line_threshold' = LineThreshold(words_sorted')
    /\ lines' = <<>>
    /\ current_line' = <<words_sorted'[1]>>
    /\ k' = 2
    /\ pc' = "sweep"
    /\ UNCHANGED <<p_idx, words, media>>
    /\ UNCHANGED svars

\* one iteration of: for w in words_sorted[1:]
GroupSweep ==
    /\ pc = "sweep"
    /\ k <= Len(words_sorted)
    /\ LET w == words_sorted[k] IN
         \/ /\ Far(w, current_line, line_threshold)
            /\ lines' = Append(lines, current_line)
            /\ current_line' = <<w>>
         \/ /\ ~Far(w, current_line, line_threshold)
            /\ current_line' = Append(current_line, w)
            /\ lines' = lines
    /\ k' = k + 1
    /\ UNCHANGED <<pc, p_idx, words, words_sorted, line_threshold, media>>
    /\ UNCHANGED svars

\* lines.append(current_line); the per-line sort; return lines
GroupFinish ==
    /\ pc = "sweep"
    /\ k > Len(words_sorted)
    /\ lines' = CloseLines(lines, current_line)
    /\ pc' = "grouped"
    /\ UNCHANGED <<p_idx, words, words_sorted, line_threshold, current_line, k, media>>
    /\ UNCHANGED svars

\* The arguments group_words_to_lines is checked on: any list of at most
\* MaxWords word dicts (h may be non-positive here: the function filters it)
LineWordBoxes == [text : {<<"w">>}, minx : {0, 5}, cy : {0, 8, 60}, h : {0, 40}, page : {0, 1}]

InitLines ==
    /\ pc = "group"
    /\ words \in SeqsUpTo(LineWordBoxes, MaxWords)
    /\ p_idx = 0 /\ words_sorted = <<>> /\ line_threshold = 0
    /\ lines = <<>> /\ current_line = <<>> /\ k = 0
    /\ media = {}
    /\ gen = NoLoc /\ arg = None /\ loc = NoLoc /\ ret = None

NextLines == GroupEmpty \/ GroupStart \/ GroupSweep \/ GroupFinish

SpecLines == InitLines /\ [][NextLines]_vars

----------------------------------------------------------------------------
(* extract_word_boxes *)

\* _safe_get(v, key, default): a vertex that is no dict is [notdict |-> TRUE]
SafeGet(v, key, default) ==
    IF "notdict" \in DOMAIN v THEN default
    ELSE IF key \in DOMAIN v THEN v[key] ELSE default

SeqMin(s) == CHOOSE x \in {s[i] : i \in DOMAIN s} : \A i \in DOMAIN s : x <= s[i]
SeqMax(s) == CHOOSE x \in {s[i] : i \in DOMAIN s} : \A i \in DOMAIN s : x >= s[i]

\* xs = [_safe_get(v, "x", 0) for v in verts]; if not xs: xs = [0, 0, 0, 0]
Coords(verts, key) ==
    LET cs == [i \in DOMAIN verts |-> SafeGet(verts[i], key, 0)]
    IN  IF cs = <<>> THEN <<0, 0, 0, 0>> ELSE cs

\* (mutant: the floor of h left out)
HeightOf_NoFloor(miny, maxy) == maxy - miny

\* h = maxy - miny; "h": h if h > 0 else 10
HeightOf(miny, maxy) == LET h == maxy - miny IN IF h > 0 THEN h ELSE 10

\* The dict appended for one word of page p: word is [symbols, verts], symbols
\* the list of the symbols' texts; cx and cy are held doubled
WordBox(word, p) ==
    LET xs == Coords(word.verts, "x")
        ys == Coords(word.verts, "y")
        minx == SeqMin(xs)
        maxx == SeqMax(xs)
        miny == SeqMin(ys)
        maxy == SeqMax(ys)
    IN  [text |-> Flatten(word.symbols),
         minx |-> minx, maxx |-> maxx, miny |-> miny, maxy |-> maxy,
         cx |-> minx + maxx, cy |-> miny + maxy,
         h |-> HeightOf(miny, maxy),
         page |-> p]

----------------------------------------------------------------------------
(* reconstruct_text_from_lines *)

\* words_text = [w["text"] for w in line if w["text"].strip() != ""]
WordsText(line) ==
    SelectSeq([i \in DOMAIN line |-> line[i].text], LAMBDA t : StripSpace(t) # <<>>)

\* out_lines: " ".join(words_text) for every line whose words_text is not empty
OutLines(ls) ==
    LET joined == [i \in DOMAIN ls |-> WordsText(ls[i])]
        kept == SelectSeq(joined, LAMBDA wt : wt # <<>>)
    IN  [i \in DOMAIN kept |-> Join(kept[i], <<" ">>)]

reconstruct_text_from_lines(ls) == Join(OutLines(ls), <<LF>>)

----------------------------------------------------------------------------
(* clean_text *)

clean_text(text) ==
    IF text = None \/ text = <<>> THEN text                     \* if not text: return text
    ELSE LET \* text.strip(" .:;,-_...")
             t1 == Strip(text, {" ", ".", ":", ";", ",", "-", "_", ELLIPSIS})
             t2 == SubRuns(t1, {".", ELLIPSIS}, <<" ">>)        \* re.sub(r'[\....]+', ' ', text)
             t3 == Remove(t2, {".", ",", ELLIPSIS})             \* the three replace(c, '')
         IN  SubRuns(t3, {" ", TAB, LF}, <<" ">>)               \* re.sub(r'\s+', ' ', text)

----------------------------------------------------------------------------
(* normalize_date_str *)

\* dd = int(..); if dd < 1 or dd > 31: dd = 27; except: dd = 27
DayOf(p) ==
    IF IntOk(p) THEN (IF IntVal(p) < 1 \/ IntVal(p) > 31 THEN 27 ELSE IntVal(p)) ELSE 27

\* mm = int(..); if mm < 1 or mm > 12: mm = 8; except: mm = 8
MonthOf(p) ==
    IF IntOk(p) THEN (IF IntVal(p) < 1 \/ IntVal(p) > 12 THEN 8 ELSE IntVal(p)) ELSE 8

\* (mutant: the pivot test written >= 30)
YearOf_PivotGe30(yy) ==
    IF IntOk(yy)
    THEN (IF Len(yy) = 2
          THEN (IF IntVal(yy) >= 30 THEN 1900 + IntVal(yy) ELSE 2000 + IntVal(yy))
          ELSE IntVal(yy))
    ELSE 1900

\* yy_num = int(yy); if len(yy) == 2: yy_num = 1900 + yy_num if yy_num > 30 else 2000 + yy_num
\* except: yy_num = 1900
YearOf(yy) ==
    IF IntOk(yy)
    THEN (IF Len(yy) = 2
          THEN (IF IntVal(yy) > 30 THEN 1900 + IntVal(yy) ELSE 2000 + IntVal(yy))
          ELSE IntVal(yy))
    ELSE 1900

\* f"{yy_num:04d}-{mm:02d}-{dd:02d}"
FormatYMD(y, m, d) == FormatInt(y, 4) \o <<"-">> \o FormatInt(m, 2) \o <<"-">> \o FormatInt(d, 2)

\* dstr = dstr.strip()
DateStripped(dstr) == StripSpace(dstr)

\* d = re.sub(r"[.\- ]+", "/", dstr); d = d.strip("/")
DateSlashed(dstr) == Strip(SubRuns(dstr, {".", "-", " "}, <<"/">>), {"/"})

\* parts = d.split("/")
DateParts(d) == SplitOn(d, "/")

\* int(p) is evaluated for every part with p.isdigit(), outside any try
YearScanRaises(parts) == \E i \in DOMAIN parts : IsDigitStr(parts[i]) /\ ~IntOk(parts[i])

\* year_candidates = [p for p in parts if p.isdigit() and (int(p) >= 1900 or int(p) >= 1000)]
YearCandidates(parts) ==
    SelectSeq(parts, LAMBDA p : IsDigitStr(p) /\ (IntVal(p) >= 1900 \/ IntVal(p) >= 1000))

\* yy = year_candidates[-1] if year_candidates else parts[-1]
YearPart(parts) ==
    LET yc == YearCandidates(parts)
    IN  IF yc # <<>> THEN yc[Len(yc)] ELSE parts[Len(parts)]

\* other_parts = [p for p in parts if p != yy]
OtherParts(parts, yy) == SelectSeq(parts, LAMBDA p : p # yy)

\* the branch len(parts) >= 4; an IndexError on other_parts is caught like a ValueError
DateMany(parts) ==
    IF YearScanRaises(parts) THEN RAISE
    ELSE LET yy == YearPart(parts)
             other_parts == OtherParts(parts, yy)
             dd == IF Len(other_parts) >= 1 THEN DayOf(other_parts[1]) ELSE 27
             mm == IF Len(other_parts) >= 2 THEN MonthOf(other_parts[2]) ELSE 8
         IN  FormatYMD(YearOf(yy), mm, dd)

\* the branch len(parts) == 3: dd, mm, yy = parts
DateThree(parts) == FormatYMD(YearOf(parts[3]), MonthOf(parts[2]), DayOf(parts[1]))

\* the branch len(parts) == 2: mm, yy = parts
DateTwo(parts) ==
    FormatInt(YearOf(parts[2]), 4) \o <<"-">> \o FormatInt(MonthOf(parts[1]), 2)    \* f"{yy_num:04d}-{mm_num:02d}"

\* re.match(r"^(19|20)\d{2}$", d)
IsYearOnly(d) == FirstAlt(<< <<Lit(<<"1", "9">>), Rep("digit", 2, 2), End>>, <<Lit(<<"2", "0">>), Rep("digit", 2, 2), End>> >>, 1, d, 1, FALSE).alt # 0

\* the last two returns: d for a year, the stripped dstr for anything else
DateOne(dstr, d) == IF IsYearOnly(d) THEN d ELSE dstr

normalize_date_str(dstr0) ==
    IF dstr0 = None \/ dstr0 = <<>> THEN None          \* if not dstr: return None
    ELSE LET dstr == DateStripped(dstr0)
             d == DateSlashed(dstr)
             parts == DateParts(d)
         IN  IF Len(parts) >= 4 THEN DateMany(parts)
             ELSE IF Len(parts) = 3 THEN DateThree(parts)
             ELSE IF Len(parts) = 2 THEN DateTwo(parts)
             ELSE DateOne(dstr, d)

----------------------------------------------------------------------------
(* The anchor patterns and the field extractors *)

\* NAME_ANCHOR_PATTERNS_VI = r"(?:ten toi la|ten|ho va ten)"
NAME_ANCHOR_PATTERNS_VI == << <<"t", "e^", "n", " ", "t", "o^", "i", " ", "l", "a!">>,
                             <<"t", "e^", "n">>,
                             <<"h", "o.", " ", "v", "a!", " ", "t", "e^", "n">> >>

\* NAME_ANCHOR_PATTERNS_EN = r"(?:my name is|name|full name)"
NAME_ANCHOR_PATTERNS_EN == << <<"m", "y", " ", "n", "a", "m", "e", " ", "i", "s">>,
                             <<"n", "a", "m", "e">>,
                             <<"f", "u", "l", "l", " ", "n", "a", "m", "e">> >>

\* HEADER_IGNORE_PATTERNS_VI = r"cong hoa|doc lap"
HEADER_IGNORE_PATTERNS_VI == << <<Lit(<<"c", "o^.", "n", "g", " ", "h", "o!", "a">>)>>,
                                <<Lit(<<"d-", "o^.", "c", " ", "l", "a^.", "p">>)>> >>

\* HEADER_IGNORE_PATTERNS_EN = r"united states"
HEADER_IGNORE_PATTERNS_EN == << <<Lit(<<"u", "n", "i", "t", "e", "d", " ", "s", "t", "a", "t", "e", "s">>)>> >>

\* fr"{anchors}[:\s\-]*(.+)"
NamePattern(anchors) ==
    [a \in DOMAIN anchors |-> <<Lit(anchors[a]), Rep("sep", 0, -1), Rep("dot", 1, -1)>>]

\* len(ln.split()) >= 2 and re.search(r"[A-Za-z\u00C0-\u1EF9\u0110\u0111]", ln)
NameShaped(ln) == Len(SplitWs(ln)) >= 2 /\ \E i \in DOMAIN ln : IsNameLetter(ln[i])

\* re.search(HEADER_IGNORE_PATTERNS_VI, ln.lower()) or re.search(HEADER_IGNORE_PATTERNS_EN, ln.lower())
IsHeader(ln) ==
    \/ Found(Search(HEADER_IGNORE_PATTERNS_VI, Lower(ln), FALSE))
    \/ Found(Search(HEADER_IGNORE_PATTERNS_EN, Lower(ln), FALSE))

\* for ln in reversed(lines): the loop from lines[i] down; None when it ends without a break
RECURSIVE NameScan(_, _)
NameScan(lns, i) ==
    IF i = 0 THEN None
    ELSE IF NameShaped(lns[i]) /\ ~IsHeader(lns[i]) THEN lns[i]
    ELSE NameScan(lns, i - 1)

\* the else branch of extract_name
NameFallback(lns) == NameScan(lns, Len(lns))

\* m of extract_name: the Vietnamese anchors, then the English ones
NameMatch(joined) ==
    LET m == Search(NamePattern(NAME_ANCHOR_PATTERNS_VI), joined, TRUE)
    IN  IF Found(m) THEN m ELSE Search(NamePattern(NAME_ANCHOR_PATTERNS_EN), joined, TRUE)

\* candidate = m.group(1).strip(); candidate = candidate.split("\n")[0].strip(); name = candidate.strip(" .:")
NameFromMatch(m, joined) ==
    LET candidate == StripSpace(LastGroup(m, joined))
    IN  Strip(StripSpace(SplitOn(candidate, LF)[1]), {" ", ".", ":"})

\* (mutant: a missing name given as the empty string)
extract_name_EmptyForNone(lns, joined) ==
    LET m == NameMatch(joined)
        r == IF Found(m) THEN NameFromMatch(m, joined) ELSE NameFallback(lns)
    IN  IF r = None THEN <<>> ELSE r

extract_name(lns, joined) ==
    LET m == NameMatch(joined)
    IN  IF Found(m) THEN NameFromMatch(m, joined) ELSE NameFallback(lns)

\* phone_anchors: r"So\s*dien\s*thoai[:\s\-]*([\d\s\-\.]+)", r"Phone[:\s\-]*([\d\s\-\.]+)"
phone_anchors == << <<Lit(<<"S", "o^'">>), Rep("space", 0, -1), Lit(<<"d-", "i", "e^.", "n">>), Rep("space", 0, -1), Lit(<<"t", "h", "o", "a.", "i">>), Rep("sep", 0, -1), Rep("phone", 1, -1)>>,
                    <<Lit(<<"P", "h", "o", "n", "e">>), Rep("sep", 0, -1), Rep("phone", 1, -1)>> >>

\* (mutant: the accepted lengths taken as 10..12)
PhoneLenOk_From10(n) == 10 <= n /\ n <= 12

\* 9 <= len(phone_candidate) <= 12
PhoneLenOk(n) == 9 <= n /\ n <= 12

\* for pat in phone_anchors: from pattern i on; None when no pattern gives a phone
RECURSIVE PhoneFromAnchors(_, _)
PhoneFromAnchors(joined, i) ==
    IF i > Len(phone_anchors) THEN None
    ELSE LET m == Search(<<phone_anchors[i]>>, joined, TRUE)
             phone_candidate == IF Found(m) THEN OnlyDigits(LastGroup(m, joined)) ELSE <<>>
         IN  IF Found(m) /\ PhoneLenOk(Len(phone_candidate)) THEN phone_candidate
             ELSE PhoneFromAnchors(joined, i + 1)

\* the branch if not phone, with r"\b(0\d{9,10})\b" and r"\b(\d{9,11})\b"
PhoneFallback(joined) ==
    LET mphone == Search(<< <<Wb, Lit(<<"0">>), Rep("digit", 9, 10), Wb>> >>, joined, FALSE)
        m2 == Search(<< <<Wb, Rep("digit", 9, 11), Wb>> >>, joined, FALSE)
    IN  IF Found(mphone) THEN SubSeq(joined, mphone.ends[2], mphone.ends[4] - 1)
        ELSE IF Found(m2) THEN Group(m2, joined, 2)
        ELSE None

extract_phone(joined) ==
    LET phone == PhoneFromAnchors(joined, 1)
    IN  IF phone = None THEN PhoneFallback(joined) ELSE phone

\* birth_anchors, each followed by [:\s\-]*([\d\/\.\- ]+)
birth_anchors == << <<Lit(<<"N", "g", "a!", "y">>), Rep("space", 0, -1), Lit(<<"s", "i", "n", "h">>), Rep("sep", 0, -1), Rep("date", 1, -1)>>,
                    <<Lit(<<"S", "i", "n", "h">>), Rep("space", 0, -1), Lit(<<"n", "a(", "m">>), Rep("sep", 0, -1), Rep("date", 1, -1)>>,
                    <<Lit(<<"D", "a", "t", "e">>), Rep("space", 0, -1), Lit(<<"o", "f">>), Rep("space", 0, -1), Lit(<<"B", "i", "r", "t", "h">>), Rep("sep", 0, -1), Rep("date", 1, -1)>>,
                    <<Lit(<<"B", "i", "r", "t", "h">>), Rep("space", 0, -1), Lit(<<"d", "a", "t", "e">>), Rep("sep", 0, -1), Rep("date", 1, -1)>> >>

\* for pat in birth_anchors: the first pattern that matches decides
RECURSIVE BirthFromAnchors(_, _)
BirthFromAnchors(joined, i) ==
    IF i > Len(birth_anchors) THEN None
    ELSE LET m == Search(<<birth_anchors[i]>>, joined, TRUE)
         IN  IF Found(m) THEN normalize_date_str(LastGroup(m, joined))
             ELSE BirthFromAnchors(joined, i + 1)

extract_birth_date(joined) == BirthFromAnchors(joined, 1)

\* extract_text_after(rex, lines): the first line rex matches
RECURSIVE extract_text_after(_, _)
extract_text_after(rex, lns) ==
    IF lns = <<>> THEN None
    ELSE LET m == Search(<<rex>>, Head(lns), TRUE)
         IN  IF Found(m) THEN clean_text(Strip(LastGroup(m, Head(lns)), {" ", ".", ":"}))
             ELSE extract_text_after(rex, Tail(lns))

\* r"Ngoai\s*ngu[:\-]?\s*(.+)"
extract_foreign_language(lns) == extract_text_after(<<Lit(<<"N", "g", "o", "a.", "i">>), Rep("space", 0, -1), Lit(<<"n", "g", "u+~">>), Rep("colondash", 0, 1), Rep("space", 0, -1), Rep("dot", 1, -1)>>, lns)

\* r"Nghe\s*nghiep\s*chuyen\s*mon[:\-]?\s*(.+)"
extract_profession(lns) == extract_text_after(<<Lit(<<"N", "g", "h", "e^!">>), Rep("space", 0, -1), Lit(<<"n", "g", "h", "i", "e^.", "p">>), Rep("space", 0, -1), Lit(<<"c", "h", "u", "y", "e^", "n">>), Rep("space", 0, -1), Lit(<<"m", "o^", "n">>), Rep("colondash", 0, 1), Rep("space", 0, -1), Rep("dot", 1, -1)>>, lns)

\* r"Nganh[:\-\s]*\s*(.+)"
extract_major(lns) == extract_text_after(<<Lit(<<"N", "g", "a!", "n", "h">>), Rep("sep", 0, -1), Rep("space", 0, -1), Rep("dot", 1, -1)>>, lns)

\* r"Dia\s*chi[:\-]?\s*(.+)"
extract_address(lns) == extract_text_after(<<Lit(<<"D-", "i.", "a">>), Rep("space", 0, -1), Lit(<<"c", "h", "i?">>), Rep("colondash", 0, 1), Rep("space", 0, -1), Rep("dot", 1, -1)>>, lns)

\* r"Trinh\s*do\s*van\s*hoa[:\-]?\s*(.+)"
CulturalLevelPattern == <<Lit(<<"T", "r", "i!", "n", "h">>), Rep("space", 0, -1), Lit(<<"d-", "o^.">>), Rep("space", 0, -1), Lit(<<"v", "a(", "n">>), Rep("space", 0, -1), Lit(<<"h", "o'", "a">>),
                          Rep("colondash", 0, 1), Rep("space", 0, -1), Rep("dot", 1, -1)>>

\* re.split(r"Ngoai\s*ngu", val, flags=re.IGNORECASE)[0]
CutAtForeignLanguage(val) ==
    LET m == Search(<< <<Lit(<<"N", "g", "o", "a.", "i">>), Rep("space", 0, -1), Lit(<<"n", "g", "u+~">>)>> >>, val, TRUE)
    IN  IF Found(m) THEN SubSeq(val, 1, m.ends[1] - 1) ELSE val

RECURSIVE extract_cultural_level(_)
extract_cultural_level(lns) ==
    IF lns = <<>> THEN None
    ELSE LET m == Search(<<CulturalLevelPattern>>, Head(lns), TRUE)
         IN  IF Found(m) THEN clean_text(CutAtForeignLanguage(LastGroup(m, Head(lns))))
             ELSE extract_cultural_level(Tail(lns))

----------------------------------------------------------------------------
(* parse_document_text *)

\* lines = [ln.strip(" .:") for ln in doc_text.splitlines() if ln.strip()]
DocLines(doc_text) ==
    LET kept == SelectSeq(SplitLines(doc_text), LAMBDA ln : StripSpace(ln) # <<>>)
    IN  [i \in DOMAIN kept |-> Strip(kept[i], {" ", ".", ":"})]

parse_document_text(doc_text) ==
    LET lns == DocLines(doc_text)
        joined == Join(lns, <<LF>>)
    IN  [name |-> extract_name(lns, joined),
         phone |-> extract_phone(joined),
         birth_date |-> extract_birth_date(joined),
         address |-> extract_address(lns),
         cultural_level |-> extract_cultural_level(lns),
         profession |-> extract_profession(lns),
         major |-> extract_major(lns),
         foreign_language |-> extract_foreign_language(lns),
         experience |-> <<>>]

----------------------------------------------------------------------------
(* ocr_reorder_and_parse, from the fullTextAnnotation on: extract_word_boxes, *)
(* group_words_to_lines, reconstruct_text_from_lines, parse_document_text.    *)
(* The annotation is read as it is walked: each step of the innermost loop    *)
(* meets one more word of the current page; the block and paragraph loops     *)
(* only concatenate.                                                          *)

\* the symbol lists met in the annotation, one text per symbol, and
\* the vertex lists met: none, a box of height 12, a flat box, a list with
\* missing keys and a vertex that is no dict
DocWords ==
    [symbols : { <<>>,
                 << <<"P">>, <<"h">>, <<"o">>, <<"n">>, <<"e">> >>,
                 << <<"0">>, <<"9">>, <<"1">>, <<"2">>, <<"3">>, <<"4">>, <<"5">>, <<"6">>, <<"7">>, <<"8">> >>,
                 << <<"A">>, <<"n">> >> },
     verts : { <<>>,
               <<[x |-> 0, y |-> 40], [x |-> 20, y |-> 40], [x |-> 20, y |-> 52], [x |-> 0, y |-> 52]>>,
               <<[x |-> 30, y |-> 5], [x |-> 50, y |-> 5], [x |-> 50, y |-> 5], [x |-> 30, y |-> 5]>>,
               <<[x |-> 60, y |-> 2], [notdict |-> TRUE], [x |-> 80], [y |-> 2]>> }]

\* gen is the list of the annotation's words read so far
Init ==
    /\ pc = "extract"
    /\ GroupIdle
    /\ gen = <<>> /\ arg = None /\ loc = NoLoc /\ ret = None

\* one pass of the innermost loop of extract_word_boxes: words.append({...})
ExtractWord ==
    /\ pc = "extract"
    /\ Len(words) < MaxDocWords
    /\ \E word \in DocWords :
          /\ words' = Append(words, WordBox(word, p_idx))
          /\ gen' = Append(gen, word)
    /\ UNCHANGED <<pc, p_idx, words_sorted, line_threshold, lines, current_line, k, media>>
    /\ UNCHANGED <<arg, loc, ret>>

\* the loop over pages moves to the next page
ExtractNextPage ==
    /\ pc = "extract"
    /\ p_idx + 1 < MaxPages
    /\ p_idx' = p_idx + 1
    /\ UNCHANGED <<pc, words, words_sorted, line_threshold, lines, current_line, k, media>>
    /\ UNCHANGED svars

\* return words; lines = group_words_to_lines(words) is entered
ExtractReturn ==
    /\ pc = "extract"
    /\ pc' = "group"
    /\ UNCHANGED gvars
    /\ UNCHANGED svars

\* document_text = reconstruct_text_from_lines(lines)
Reconstruct ==
    /\ pc = "grouped"
    /\ arg' = reconstruct_text_from_lines(lines)
    /\ pc' = "parse"
    /\ UNCHANGED gvars
    /\ UNCHANGED <<gen, loc, ret>>

\* parsed = parse_document_text(document_text); return
Parse ==
    /\ pc = "parse"
    /\ ret' = parse_document_text(arg)
    /\ pc' = "done"
    /\ UNCHANGED gvars
    /\ UNCHANGED <<gen, arg, loc>>

Next ==
    \/ ExtractWord \/ ExtractNextPage \/ ExtractReturn
    \/ GroupEmpty \/ GroupStart \/ GroupSweep \/ GroupFinish
    \/ Reconstruct \/ Parse

Spec == Init /\ [][Next]_vars

----------------------------------------------------------------------------
(* clean_text, applied to an argument and then to its own result *)

InitClean ==
    /\ pc = "clean"
    /\ GroupIdle
    /\ gen = NoLoc /\ loc = NoLoc /\ ret = None
    /\ arg \in SeqsUpTo({"a", " ", TAB, ".", ",", ":", ";", "-", "_", ELLIPSIS}, MaxCleanLen)

CleanOnce ==
    /\ pc = "clean"
    /\ ret' = clean_text(arg)
    /\ pc' = "again"
    /\ UNCHANGED gvars
    /\ UNCHANGED <<gen, arg, loc>>

CleanAgain ==
    /\ pc = "again"
    /\ loc' = [again |-> clean_text(ret)]
    /\ pc' = "done"
    /\ UNCHANGED gvars
    /\ UNCHANGED <<gen, arg, ret>>

NextClean == CleanOnce \/ CleanAgain

SpecClean == InitClean /\ [][NextClean]_vars

----------------------------------------------------------------------------
(* normalize_date_str, applied to fragments built from groups *)

\* a fragment: the groups with the separator between them and the pad around
DateFragment(g) == g.pad \o Join(g.groups, g.sep) \o g.pad

InitDate ==
    /\ pc = "date"
    /\ GroupIdle
    /\ loc = NoLoc /\ ret = None
    /\ gen \in [groups : UNION {[1..n -> { <<>>, <<"2", "7">>, <<"0", "1">>, <<"1", "9", "9", "0">>, <<"9", "9">>,
                                          <<"3", "0">>, <<"5">>, <<"x">>, <<SUP2>> }] : n \in 1..MaxGroups},
                 sep : { <<"/">>, <<".">>, <<" ", "-", " ">> },
                 pad : { <<>>, <<" ">> }]
    /\ arg = DateFragment(gen)

\* if not dstr: return None
DateEmpty ==
    /\ pc = "date"
    /\ arg = <<>>
    /\ ret' = None
    /\ pc' = "done"
    /\ UNCHANGED gvars
    /\ UNCHANGED <<gen, arg, loc>>

\* dstr = dstr.strip(); d = ...; parts = d.split("/")
DateSplit ==
    /\ pc = "date"
    /\ arg # <<>>
    /\ LET dstr == DateStripped(arg)
           d == DateSlashed(dstr)
       IN  loc' = [dstr |-> dstr, d |-> d, parts |-> DateParts(d)]
    /\ pc' = "dispatch"
    /\ UNCHANGED gvars
    /\ UNCHANGED <<gen, arg, ret>>

\* if len(parts) >= 4: ...
DateBranchMany ==
    /\ pc = "dispatch"
    /\ Len(loc.parts) >= 4
    /\ ret' = DateMany(loc.parts)
    /\ pc' = "done"
    /\ UNCHANGED gvars
    /\ UNCHANGED <<gen, arg, loc>>

\* if len(parts) == 3: ...
DateBranchThree ==
    /\ pc = "dispatch"
    /\ Len(loc.parts) = 3
    /\ ret' = DateThree(loc.parts)
    /\ pc' = "done"
    /\ UNCHANGED gvars
    /\ UNCHANGED <<gen, arg, loc>>

\* if len(parts) == 2: ...
DateBranchTwo ==
    /\ pc = "dispatch"
    /\ Len(loc.parts) = 2
    /\ ret' = DateTwo(loc.parts)
    /\ pc' = "done"
    /\ UNCHANGED gvars
    /\ UNCHANGED <<gen, arg, loc>>

\* the year-only match and the final return dstr
DateBranchOne ==
    /\ pc = "dispatch"
    /\ Len(loc.parts) < 2
    /\ ret' = DateOne(loc.dstr, loc.d)
    /\ pc' = "done"
    /\ UNCHANGED gvars
    /\ UNCHANGED <<gen, arg, loc>>

NextDate == DateEmpty \/ DateSplit \/ DateBranchMany \/ DateBranchThree \/ DateBranchTwo \/ DateBranchOne

SpecDate == InitDate /\ [][NextDate]_vars

----------------------------------------------------------------------------
(* extract_phone, applied to joined texts built from pieces: a piece before *)
(* the anchors, at most one Vietnamese and one English anchor each followed *)
(* by a candidate, and a piece after.  Every piece carries what it is made  *)
(* of: its digits, and its standalone digit tokens with whether each starts *)
(* with 0 and has 10-11 digits (zero) and whether it has 9-11 digits (any). *)

PhonePres == { [text |-> <<>>, tokens |-> <<>>],
               [text |-> <<"0", "9", "8", "7", "6", "5", "4", "3", "2", "1", " ">>, tokens |-> <<[text |-> <<"0", "9", "8", "7", "6", "5", "4", "3", "2", "1">>, zero |-> TRUE, any |-> TRUE]>>],
               [text |-> <<"t", "e", "l", " ", "9", "8", "7", "6", "5", "4", "3", "2", "1", " ", "x", " ">>, tokens |-> <<[text |-> <<"9", "8", "7", "6", "5", "4", "3", "2", "1">>, zero |-> FALSE, any |-> TRUE]>>],
               [text |-> <<"a", "0", "9", "8", "7", "6", "5", "4", "3", "2", "1", " ">>, tokens |-> <<>>] }

PhonePosts == { [text |-> <<>>, tokens |-> <<>>],
                [text |-> <<"0", "9", "8", "7", "6", "5", "4", "3", "2", "2">>, tokens |-> <<[text |-> <<"0", "9", "8", "7", "6", "5", "4", "3", "2", "2">>, zero |-> TRUE, any |-> TRUE]>>],
                [text |-> <<"0", "9", "8", "7", "6", "5", "4", "3", "2", "1", "0">>, tokens |-> <<[text |-> <<"0", "9", "8", "7", "6", "5", "4", "3", "2", "1", "0">>, zero |-> TRUE, any |-> TRUE]>>],
                [text |-> <<"1", "2", "3", "4", "5", "6", "7", "8", "9", "0", "1", "2">>, tokens |-> <<>>] }

PhoneCands == { [text |-> <<"0", "9", "1", "2", "-", "3", "4", "5", "-", "6", "7", "8">>, digits |-> <<"0", "9", "1", "2", "3", "4", "5", "6", "7", "8">>, tokens |-> <<>>],
                [text |-> <<"1", "2", "3">>, digits |-> <<"1", "2", "3">>, tokens |-> <<>>],
                [text |-> <<"1", "2", "3", "4", "5", "6", "7", "8", "9", "0", "1", "2", "3">>, digits |-> <<"1", "2", "3", "4", "5", "6", "7", "8", "9", "0", "1", "2", "3">>, tokens |-> <<>>],
                [text |-> <<"1", "2", "3", "4", "5", "6", "7", "8", "9">>, digits |-> <<"1", "2", "3", "4", "5", "6", "7", "8", "9">>, tokens |-> <<[text |-> <<"1", "2", "3", "4", "5", "6", "7", "8", "9">>, zero |-> FALSE, any |-> TRUE]>>],
                [text |-> <<"x">>, digits |-> <<>>, tokens |-> <<>>],
                [text |-> <<"0", "9", "1", "2", "3", "4", "5", "6", "7", "8", "9", "0">>, digits |-> <<"0", "9", "1", "2", "3", "4", "5", "6", "7", "8", "9", "0">>, tokens |-> <<>>],
                [text |-> <<"1", "2", " ", "0", "9", "1", "2", "3", "4", "5", "6", "7", "8">>, digits |-> <<"1", "2", "0", "9", "1", "2", "3", "4", "5", "6", "7", "8">>, tokens |-> <<[text |-> <<"0", "9", "1", "2", "3", "4", "5", "6", "7", "8">>, zero |-> TRUE, any |-> TRUE]>>] }

NoAnchor == [present |-> FALSE]
PhoneAnchored(anchors) == [present : {TRUE}, anchor : anchors, cand : PhoneCands]

\* a candidate ends with a character outside [\d\s\-\.]
PhoneAnchorText(a) == IF a.present THEN a.anchor \o a.cand.text \o <<" ", ";", " ">> ELSE <<>>

PhoneText(g) == g.pre.text \o PhoneAnchorText(g.vi) \o PhoneAnchorText(g.en) \o g.post.text

InitPhone ==
    /\ pc = "phone"
    /\ GroupIdle
    /\ loc = NoLoc /\ ret = None
    /\ gen \in [pre : PhonePres, vi : {NoAnchor} \cup PhoneAnchored({ <<"S", "o^'", " ", "d-", "i", "e^.", "n", " ", "t", "h", "o", "a.", "i", ":", " ">>,
                                                     <<"S", "O^'", " ", "D-", "I", "E^.", "N", " ", " ", "T", "H", "O", "A.", "I", "-">> }),
                en : {NoAnchor} \cup PhoneAnchored({ <<"P", "h", "o", "n", "e", ":", " ">>, <<"p", "h", "o", "n", "e">> }), post : PhonePosts]
    /\ arg = PhoneText(gen)

\* the loop over phone_anchors ends with a phone: return it
PhoneByAnchor ==
    /\ pc = "phone"
    /\ PhoneFromAnchors(arg, 1) # None
    /\ ret' = PhoneFromAnchors(arg, 1)
    /\ pc' = "done"
    /\ UNCHANGED gvars
    /\ UNCHANGED <<gen, arg, loc>>

\* the loop ends with phone = None: the branch if not phone
PhoneByFallback ==
    /\ pc = "phone"
    /\ PhoneFromAnchors(arg, 1) = None
    /\ ret' = PhoneFallback(arg)
    /\ pc' = "done"
    /\ UNCHANGED gvars
    /\ UNCHANGED <<gen, arg, loc>>

NextPhone == PhoneByAnchor \/ PhoneByFallback

SpecPhone == InitPhone /\ [][NextPhone]_vars

----------------------------------------------------------------------------
(* extract_name, applied to the lines of a document as parse_document_text  *)
(* hands them over: lines, and joined = "\n".join(lines).  Every line       *)
(* carries what it is: whether a name anchor with text after it stands in   *)
(* it (anch), whether it ends with a name anchor (tail), and whether it has *)
(* two words and a letter and is no header (ok).                            *)

NameLines == { [text |-> <<>>, anch |-> FALSE, tail |-> FALSE, ok |-> FALSE],
               [text |-> <<"N", "G", "U", "Y", "E", "N", " ", "V", "A", "N", " ", "A">>, anch |-> FALSE, tail |-> FALSE, ok |-> TRUE],
               [text |-> <<"C", "O^.", "N", "G", " ", "H", "O!", "A">>, anch |-> FALSE, tail |-> FALSE, ok |-> FALSE],
               [text |-> <<"H", "a", "n", "o", "i">>, anch |-> FALSE, tail |-> FALSE, ok |-> FALSE],
               [text |-> <<"1", "2", " ", "3", "4">>, anch |-> FALSE, tail |-> FALSE, ok |-> FALSE],
               [text |-> <<"2", " ", TIMES, " ", "3">>, anch |-> FALSE, tail |-> FALSE, ok |-> FALSE],
               [text |-> <<"U", "n", "i", "t", "e", "d", " ", "S", "t", "a", "t", "e", "s", " ", "o", "f", " ", "A", "m", "e", "r", "i", "c", "a">>, anch |-> FALSE, tail |-> FALSE, ok |-> FALSE],
               [text |-> <<"T", "e^", "n", ":", " ", "L", "a", "n">>, anch |-> TRUE, tail |-> FALSE, ok |-> FALSE],
               [text |-> <<"F", "u", "l", "l", " ", "N", "a", "m", "e", " ", "-", " ", "B", "o", "b">>, anch |-> TRUE, tail |-> FALSE, ok |-> FALSE],
               [text |-> <<"T", "r", "a", "n", " ", "T", "h", "i", " ", "B">>, anch |-> FALSE, tail |-> FALSE, ok |-> TRUE],
               [text |-> <<"H", "o", " ", "t", "e^", "n">>, anch |-> FALSE, tail |-> TRUE, ok |-> TRUE] }

NameTexts(g) == [i \in DOMAIN g |-> g[i].text]

InitName ==
    /\ pc = "name"
    /\ GroupIdle
    /\ loc = NoLoc /\ ret = None
    /\ gen \in SeqsUpTo(NameLines, MaxLines)
    /\ arg = [lines |-> NameTexts(gen), joined |-> Join(NameTexts(gen), <<LF>>)]

\* if m: the name is what follows the anchor
NameByAnchor ==
    /\ pc = "name"
    /\ Found(NameMatch(arg.joined))
    /\ ret' = extract_name(arg.lines, arg.joined)
    /\ pc' = "done"
    /\ UNCHANGED gvars
    /\ UNCHANGED <<gen, arg, loc>>

\* else: the scan of the lines from the last
NameByFallback ==
    /\ pc = "name"
    /\ ~Found(NameMatch(arg.joined))
    /\ ret' = extract_name(arg.lines, arg.joined)
    /\ pc' = "done"
    /\ UNCHANGED gvars
    /\ UNCHANGED <<gen, arg, loc>>

NextName == NameByAnchor \/ NameByFallback

SpecName == InitName /\ [][NextName]_vars

----------------------------------------------------------------------------
(* extract_resume, the upload handler: MaxRequests requests handled at the  *)
(* same time, each a thread running the view on its own upload.  pc, gen,   *)
(* loc and ret are here functions of the request; media is what they share. *)

Requests == 1..MaxRequests

\* file.name of the uploads met: supported extensions in either case, an
\* unsupported one, a name that is all extension, and a second file
UploadNames == { <<"a", ".", "p", "n", "g">>,
                 <<"a", ".", "P", "D", "F">>,
                 <<"a", ".", "t", "x", "t">>,
                 <<".", "p", "n", "g">>,
                 <<"b", ".", "j", "p", "g">> }

\* os.path.splitext(filename)[1]: from the last dot on, if a character other
\* than a dot stands before it
SplitExt(filename) ==
    LET dots == {i \in DOMAIN filename : filename[i] = "."}
        last == CHOOSE i \in dots : \A j \in dots : j <= i
    IN  IF dots = {} THEN <<>>
        ELSE IF \A i \in 1..(last - 1) : filename[i] = "." THEN <<>>
        ELSE SubSeq(filename, last, Len(filename))

\* ['.jpg', '.jpeg', '.png', '.bmp', '.tiff', '.pdf']
SupportedExts == { <<".", "j", "p", "g">>, <<".", "j", "p", "e", "g">>, <<".", "p", "n", "g">>,
                   <<".", "b", "m", "p">>, <<".", "t", "i", "f", "f">>, <<".", "p", "d", "f">> }

\* the variables the handler leaves alone
idle == <<p_idx, words, words_sorted, line_threshold, lines, current_line, k, arg>>

InitUpload ==
    /\ pc = [r \in Requests |-> "request"]
    /\ GroupIdle
    /\ arg = None
    /\ gen \in [Requests -> UploadNames \cup {None}]
    /\ loc = [r \in Requests |-> [filename |-> None, ext |-> None, result |-> None]]
    /\ ret = [r \in Requests |-> None]

\* file = request.FILES.get('file'); if not file: return Response(..., status=400)
\* filename = file.name
UploadReceive(r) ==
    /\ pc[r] = "request"
    /\ IF gen[r] = None
       THEN /\ ret' = [ret EXCEPT ![r] = <<"400">>]
            /\ pc' = [pc EXCEPT ![r] = "done"]
            /\ UNCHANGED loc
       ELSE /\ loc' = [loc EXCEPT ![r].filename = gen[r]]
            /\ pc' = [pc EXCEPT ![r] = "open"]
            /\ UNCHANGED ret
    /\ UNCHANGED <<idle, gen, media>>

\* with open(filepath, 'wb+') as dest: the file is created, or truncated
UploadOpen(r) ==
    /\ pc[r] = "open"
    /\ media' = media \cup {loc[r].filename}
    /\ pc' = [pc EXCEPT ![r] = "write"]
    /\ UNCHANGED <<idle, gen, loc, ret>>

\* for chunk in file.chunks(): dest.write(chunk), and dest is closed: a file
\* removed meanwhile stays removed
UploadWrite(r) ==
    /\ pc[r] = "write"
    /\ pc' = [pc EXCEPT ![r] = "ext"]
    /\ UNCHANGED <<idle, gen, loc, ret, media>>

\* ext = os.path.splitext(filename)[1].lower(); if ext in [...]
UploadExt(r) ==
    /\ pc[r] = "ext"
    /\ LET ext == Lower(SplitExt(loc[r].filename))
       IN  /\ loc' = [loc EXCEPT ![r].ext = ext]
           /\ pc' = [pc EXCEPT ![r] = IF ext \in SupportedExts THEN "ocr" ELSE "remove"]
    /\ UNCHANGED <<idle, gen, ret, media>>

\* result = ocr_reorder_and_parse(filepath): it returns the parsed record, or
\* raises: the file is gone (open, convert_from_path), the Vision call fails
\* (requests.post, raise_for_status), the response or the parse fails.  The
\* view catches nothing here, so the exception ends the request.
UploadOcr(r) ==
    /\ pc[r] = "ocr"
    /\ \/ /\ loc[r].filename \notin media
          /\ ret' = [ret EXCEPT ![r] = RAISE]
          /\ pc' = [pc EXCEPT ![r] = "done"]
          /\ UNCHANGED loc
       \/ /\ loc[r].filename \in media
          /\ ret' = [ret EXCEPT ![r] = RAISE]
          /\ pc' = [pc EXCEPT ![r] = "done"]
          /\ UNCHANGED loc
       \/ /\ loc[r].filename \in media
          /\ loc' = [loc EXCEPT ![r].result = <<"parsed">>]
          /\ pc' = [pc EXCEPT ![r] = "remove"]
          /\ UNCHANGED ret
    /\ UNCHANGED <<idle, gen, media>>

\* try: os.remove(filepath) except Exception: pass, in either branch
UploadRemove(r) ==
    /\ pc[r] = "remove"
    /\ media' = media \ {loc[r].filename}
    /\ pc' = [pc EXCEPT ![r] = "respond"]
    /\ UNCHANGED <<idle, gen, loc, ret>>

\* return Response(result["parsed"]), or Response({"error": ...}, status=400)
UploadRespond(r) ==
    /\ pc[r] = "respond"
    /\ ret' = [ret EXCEPT ![r] = IF loc[r].result = None THEN <<"400">> ELSE <<"200">>]
    /\ pc' = [pc EXCEPT ![r] = "done"]
    /\ UNCHANGED <<idle, gen, loc, media>>

NextUpload ==
    \E r \in Requests :
        \/ UploadReceive(r)
        \/ UploadOpen(r)
        \/ UploadWrite(r)
        \/ UploadExt(r)
        \/ UploadOcr(r)
        \/ UploadRemove(r)
        \/ UploadRespond(r)

SpecUpload == InitUpload /\ [][NextUpload]_vars

----------------------------------------------------------------------------
(* Claims about group_words_to_lines, checked under SpecLines *)

\* C1: when group_words_to_lines has returned, every input WordBox appears in
\* exactly one returned Line (the concatenation of the Lines is a permutation
\* of the input, counted with multiplicity) and no returned Line is empty.
C1_Partition ==
    pc = "grouped" =>
        /\ Len(Flatten(lines)) = Len(words)
        /\ \A i \in DOMAIN words : Count(Flatten(lines), words[i]) = Count(words, words[i])
        /\ \A i \in DOMAIN lines : lines[i] # <<>>

C1_Witness ==
    /\ pc = "grouped"
    /\ Len(words) = 3
    /\ Len(lines) = 2
    /\ words[1] = words[3]

\* C2: the returned Lines are sorted by page ascending, and of two consecutive
\* Lines on the same page the earlier has mean cy <= the later's mean cy.
C2_LinesOrdered ==
    pc = "grouped" =>
        \A i \in 1..(Len(lines) - 1) :
            LET a == lines[i]
                b == lines[i + 1]
            IN  /\ a # <<>> /\ b # <<>>
                /\ a[1].page <= b[1].page
                /\ a[1].page = b[1].page => CySum(a) * Len(b) <= CySum(b) * Len(a)

C2_Witness ==
    /\ pc = "grouped"
    /\ Len(lines) = 3
    /\ lines[1][1].page = 0 /\ lines[2][1].page = 0 /\ lines[3][1].page = 1
    /\ CySum(lines[1]) * Len(lines[2]) < CySum(lines[2]) * Len(lines[1])
    /\ words[1].page = 1

\* C3: every returned Line is well formed: its WordBoxes carry one page index
\* and stand in non-decreasing order of minx.
C3_LineWellFormed ==
    pc = "grouped" =>
        \A i \in DOMAIN lines :
            /\ \A a, b \in DOMAIN lines[i] : lines[i][a].page = lines[i][b].page
            /\ \A a \in 1..(Len(lines[i]) - 1) : lines[i][a].minx <= lines[i][a + 1].minx

\* a Line whose words were swept in an order that is not the minx order
C3_Witness ==
    /\ pc = "grouped"
    /\ \E i \in DOMAIN lines :
          /\ Len(lines[i]) = 2
          /\ lines[i][1].minx < lines[i][2].minx
          /\ lines[i][1].cy > lines[i][2].cy

----------------------------------------------------------------------------
(* Claim about clean_text, checked under SpecClean *)

\* C4: applying clean_text twice yields the same result as applying it once:
\* clean_text(clean_text(s)) = clean_text(s) for every s over letters, spaces,
\* other whitespace and the punctuation . , : ; - _ and the ellipsis.
C4_Idempotent == pc = "done" => loc.again = ret

----------------------------------------------------------------------------
(* Claims about normalize_date_str, checked under SpecDate.  What the claims *)
(* expect is stated from the groups the fragment was built from, with the    *)
(* integer each group of the fragments denotes written out (-1: none).      *)

C5_Value(grp) ==
    CASE grp = <<"2", "7">> -> 27
      [] grp = <<"0", "1">> -> 1
      [] grp = <<"1", "9", "9", "0">> -> 1990
      [] grp = <<"9", "9">> -> 99
      [] grp = <<"3", "0">> -> 30
      [] grp = <<"5">> -> 5
      [] OTHER -> -1

\* the groups left after the separators are replaced by "/" and the "/" at
\* the ends trimmed: runs of . - and space count as one separator, so no
\* empty group survives them; "/" repeated leaves empty groups inside
C5_Groups(g) ==
    LET kept == IF g.sep = <<"/">> THEN Strip(g.groups, {<<>>})
                ELSE SelectSeq(g.groups, LAMBDA x : x # <<>>)
    IN  IF kept = <<>> THEN << <<>> >> ELSE kept

C5_Day(grp) == IF C5_Value(grp) \in 1..31 THEN C5_Value(grp) ELSE 27
C5_Month(grp) == IF C5_Value(grp) \in 1..12 THEN C5_Value(grp) ELSE 8
C5_Year(grp) ==
    IF C5_Value(grp) = -1 THEN 1900
    ELSE IF Len(grp) = 2 THEN (IF C5_Value(grp) > 30 THEN 1900 + C5_Value(grp) ELSE 2000 + C5_Value(grp))
    ELSE C5_Value(grp)

C5_D(n) == DigitChars[n + 1]
C5_YYYY(y) == <<C5_D(y \div 1000), C5_D((y \div 100) % 10), C5_D((y \div 10) % 10), C5_D(y % 10)>>
C5_NN(n) == <<C5_D(n \div 10), C5_D(n % 10)>>

C5_IsYear(grp) == Len(grp) = 4 /\ C5_Value(grp) \in 1900..2099

\* what the claim says of fragments of one, two and three groups, but for
\* the result of "anything else", which is other
C5_Rendered(other) ==
    LET gs == C5_Groups(gen)
    IN  /\ Len(gs) = 3 =>
              ret = C5_YYYY(C5_Year(gs[3])) \o <<"-">> \o C5_NN(C5_Month(gs[2])) \o <<"-">> \o C5_NN(C5_Day(gs[1]))
        /\ Len(gs) = 2 =>
              ret = C5_YYYY(C5_Year(gs[2])) \o <<"-">> \o C5_NN(C5_Month(gs[1]))
        /\ Len(gs) = 1 /\ C5_IsYear(gs[1]) => ret = gs[1]
        /\ Len(gs) = 1 /\ ~C5_IsYear(gs[1]) => ret = other

C10_ManyGroups ==
    LET gs == C5_Groups(gen)
        plausible == {i \in DOMAIN gs : C5_Value(gs[i]) >= 1000}
        last == CHOOSE i \in plausible : \A j \in plausible : j <= i
        rest == SelectSeq(gs, LAMBDA x : x # gs[last])
    IN  pc = "done" /\ Len(gs) >= 4 =>
            /\ ret # RAISE
            /\ Len(ret) = 10 /\ ret[5] = "-" /\ ret[8] = "-"
            /\ plausible # {} =>
                  ret = C5_YYYY(C5_Year(gs[last])) \o <<"-">>
                        \o C5_NN(IF Len(rest) >= 2 THEN C5_Month(rest[2]) ELSE 8) \o <<"-">>
                        \o C5_NN(IF Len(rest) >= 1 THEN C5_Day(rest[1]) ELSE 27)

----------------------------------------------------------------------------
(* Claim about extract_phone, checked under SpecPhone *)

C6_AnchorDigits(g) ==
    LET vi == IF g.vi.present THEN <<g.vi.cand.digits>> ELSE <<>>
        en == IF g.en.present THEN <<g.en.cand.digits>> ELSE <<>>
    IN  SelectSeq(vi \o en, LAMBDA d : 9 <= Len(d) /\ Len(d) <= 12)

C6_Tokens(g) ==
    g.pre.tokens \o (IF g.vi.present THEN g.vi.cand.tokens ELSE <<>>)
                 \o (IF g.en.present THEN g.en.cand.tokens ELSE <<>>) \o g.post.tokens

C6_Expected(g) ==
    LET ds == C6_AnchorDigits(g)
        ts == C6_Tokens(g)
        zs == SelectSeq(ts, LAMBDA t : t.zero)
        as == SelectSeq(ts, LAMBDA t : t.any)
    IN  IF ds # <<>> THEN ds[1]
        ELSE IF zs # <<>> THEN zs[1].text
        ELSE IF as # <<>> THEN as[1].text
        ELSE None

\* C6: the digits of the digit-ish text that follows a phone anchor (the
\* Vietnamese one first, each anchor at its first match) are returned if and
\* only if there are 9 to 12 of them; otherwise the result is the first
\* standalone token starting with 0 of 10-11 digits, else the first standalone
\* token of 9-11 digits, else no value.  So a result that is not None
\* consists of digits only and has 9 to 12 of them.
C6_Phone ==
    pc = "done" =>
        /\ ret = C6_Expected(gen)
        /\ ret # None => /\ \A i \in DOMAIN ret : ret[i] \in Digits
                         /\ 9 <= Len(ret) /\ Len(ret) <= 12

\* "So dien thoai: 0912-345-678" yields "0912345678", with standalone tokens around
C6_Witness ==
    /\ pc = "done"
    /\ gen.vi.present /\ gen.vi.cand.text = <<"0", "9", "1", "2", "-", "3", "4", "5", "-", "6", "7", "8">>
    /\ ~gen.en.present
    /\ gen.pre.tokens # <<>>
    /\ ret = <<"0", "9", "1", "2", "3", "4", "5", "6", "7", "8">>

----------------------------------------------------------------------------
(* Claim about extract_name, checked under SpecName *)

\* a name anchor matches in the joined text: in a line, or at the end of a
\* line with text on a later line
C7_Anchored(g) ==
    \E i \in DOMAIN g :
        \/ g[i].anch
        \/ g[i].tail /\ \E j \in (i + 1)..Len(g) : g[j].text # <<>>

C7_LastOk(g) ==
    LET q == {i \in DOMAIN g : g[i].ok}
    IN  IF q = {} THEN None ELSE g[CHOOSE i \in q : \A j \in q : j <= i].text

\* C7: when no Vietnamese or English name anchor matches in the joined text,
\* the result is the last line with at least 2 words and a letter that
\* matches no header-ignore phrase; the name is absent if no line qualifies.
C7_NameFallback == pc = "done" /\ ~C7_Anchored(gen) => ret = C7_LastOk(gen)

----------------------------------------------------------------------------
(* Claims about the pipeline, checked under Spec *)

C8_Absent ==
    [name |-> None, phone |-> None, birth_date |-> None, address |-> None,
     cultural_level |-> None, profession |-> None, major |-> None,
     foreign_language |-> None, experience |-> <<>>]

\* C8: zero WordBoxes give an empty Line list, an empty Line list gives the
\* empty document text, and parse_document_text on it returns a record with
\* every field absent and experience the empty list.
C8_EmptyInput ==
    words = <<>> =>
        /\ pc \in {"grouped", "parse", "done"} => lines = <<>>
        /\ pc \in {"parse", "done"} => arg = <<>>
        /\ pc = "done" => ret = C8_Absent

C8_Witness == pc = "done" /\ words = <<>> /\ p_idx = 1 /\ ret.experience = <<>>

\* C9: no WordBox of extract_word_boxes has h <= 0: h is 10 whenever
\* maxy - miny is not positive, as for a word without vertices, whose box is
\* 0,0,0,0, and h is maxy - miny otherwise.
C9_HeightFloor ==
    \A i \in DOMAIN words :
        LET w == words[i] IN
        /\ w.h > 0
        /\ w.maxy - w.miny <= 0 => w.h = 10
        /\ w.maxy - w.miny > 0 => w.h = w.maxy - w.miny
        /\ gen[i].verts = <<>> =>
              w.minx = 0 /\ w.maxx = 0 /\ w.miny = 0 /\ w.maxy = 0 /\ w.h = 10

C9_Witness ==
    /\ Len(words) = 2
    /\ gen[1].verts = <<>> /\ words[1].h = 10
    /\ words[2].maxy - words[2].miny = 12 /\ words[2].h = 12

----------------------------------------------------------------------------
(* Claim about extract_resume, checked under SpecUpload *)

\* C11: for every request that carries a file, the file written under
\* MEDIA_ROOT no longer exists once the handling has finished, whichever way
\* it went (OCR done, extension rejected, OCR ended in an exception), also
\* with another request of the same filename handled at the same time.
\* Stated of the moment every request has finished, so that a file another
\* request is still working on is not held against this one.
C11_FileRemoved ==
    (\A r \in Requests : pc[r] = "done") =>
        \A r \in Requests : gen[r] # None => gen[r] \notin media

=============================================================================
